---- MODULE Spec2Model ----
(***************************************************************************)
(* Model of the futures streaming session of binance-rs                    *)
(* (src/futures/websockets.rs): the connection handle, the read loop       *)
(* event_loop, the envelope unwrapping and untagged classification of      *)
(* handle_msg, and the caller-owned cancellation flag.                     *)
(*                                                                         *)
(* A JSON value is a non-empty sequence of layers.  Layer i is the set of  *)
(* FuturesEvents variants that the object at nesting level i structurally  *)
(* matches; every layer but the last carries a "data" key whose content is *)
(* the rest of the sequence.  A text message is a record saying whether    *)
(* the text is valid JSON and, if so, which value it denotes.              *)
(***************************************************************************)
EXTENDS Integers, Sequences, FiniteSets, TLC

VARIABLES socket, nconn, closeSent, ret, running, pc, result, trace,
          readsSinceClear, input

vars == <<socket, nconn, closeSent, ret, running, pc, result, trace,
          readsSinceClear, input>>

\* ------------------------------------------------------------------ bounds
MaxReads == 3
MaxConn == 2
MaxDepth == 2

\* --------------------------------------------------------- classification
\* enum FuturesEvents, in declaration order: serde's untagged
\* representation tries the variants in this order.
FuturesEvents ==
    << "Vec", "DayTickerEvent", "BookTickerEvent", "MiniTickerEvent",
       "VecMiniTickerEvent", "AccountUpdateEvent", "OrderTradeEvent",
       "AggrTradesEvent", "IndexPriceEvent", "MarkPriceEvent",
       "VecMarkPriceEvent", "TradeEvent", "KlineEvent",
       "ContinuousKlineEvent", "IndexKlineEvent", "LiquidationEvent",
       "OrderBook", "DepthOrderBookEvent", "UserDataStreamExpiredEvent" >>

Shapes == {FuturesEvents[i] : i \in 1..Len(FuturesEvents)}

\* The variants whose payload is a Vec: only a JSON array matches them.
ArrayShapes == {"Vec", "VecMiniTickerEvent", "VecMarkPriceEvent"}

\* enum FuturesWebsocketEvent: the variants handed to the handler.
FuturesWebsocketEvent ==
    { "AccountUpdate", "OrderTrade", "AggrTrades", "Trade", "OrderBook",
      "DayTicker", "MiniTicker", "MiniTickerAll", "IndexPrice", "MarkPrice",
      "MarkPriceAll", "DayTickerAll", "Kline", "ContinuousKline",
      "IndexKline", "Liquidation", "DepthOrderBook", "BookTicker",
      "UserDataStreamExpiredEvent" }

\* The match of handle_msg from FuturesEvents to FuturesWebsocketEvent.
action(events) ==
    CASE events = "Vec" -> "DayTickerAll"
      [] events = "DayTickerEvent" -> "DayTicker"
      [] events = "BookTickerEvent" -> "BookTicker"
      [] events = "MiniTickerEvent" -> "MiniTicker"
      [] events = "VecMiniTickerEvent" -> "MiniTickerAll"
      [] events = "AccountUpdateEvent" -> "AccountUpdate"
      [] events = "OrderTradeEvent" -> "OrderTrade"
      [] events = "IndexPriceEvent" -> "IndexPrice"
      [] events = "MarkPriceEvent" -> "MarkPrice"
      [] events = "VecMarkPriceEvent" -> "MarkPriceAll"
      [] events = "TradeEvent" -> "Trade"
      [] events = "ContinuousKlineEvent" -> "ContinuousKline"
      [] events = "IndexKlineEvent" -> "IndexKline"
      [] events = "LiquidationEvent" -> "Liquidation"
      [] events = "KlineEvent" -> "Kline"
      [] events = "OrderBook" -> "OrderBook"
      [] events = "DepthOrderBookEvent" -> "DepthOrderBook"
      [] events = "AggrTradesEvent" -> "AggrTrades"
      [] events = "UserDataStreamExpiredEvent" -> "UserDataStreamExpiredEvent"

NoMatch == "NoMatch"

from_value_LastMatch(matches) ==
    LET idx == {i \in 1..Len(FuturesEvents) : FuturesEvents[i] \in matches}
    IN  IF idx = {} THEN NoMatch
        ELSE FuturesEvents[CHOOSE i \in idx : \A j \in idx : j <= i]

\* serde_json::from_value::<FuturesEvents>: the first variant, in
\* declaration order, that the value deserializes into; an error if none.
from_value(matches) ==
    LET idx == {i \in 1..Len(FuturesEvents) : FuturesEvents[i] \in matches}
    IN  IF idx = {} THEN NoMatch
        ELSE FuturesEvents[CHOOSE i \in idx : \A j \in idx : i <= j]

\* ------------------------------------------------------------- JSON text
InvalidJson == [json |-> FALSE, value |-> <<>>]

\* serde_json::Value::to_string: the text of a value is valid JSON.
to_string(value) == [json |-> TRUE, value |-> value]

\* serde_json::from_str: the value a text denotes, or a parse error.
from_str(msg) ==
    IF msg.json THEN [ok |-> TRUE, value |-> msg.value]
    ELSE [ok |-> FALSE, value |-> <<>>]

\* value.get("data"): present on every layer but the innermost.
has_data(value) == Len(value) > 1
get_data(value) == Tail(value)

HandlerResults == {"Ok", "HandlerError"}

Call(ev, h) == [op |-> "call", kind |-> ev, info |-> h, msg |-> InvalidJson]

handle_msg_SwallowInner(msg, h, inner) ==
    LET parsed == from_str(msg) IN
    IF ~parsed.ok THEN [calls |-> <<>>, res |-> "Json"]
    ELSE IF has_data(parsed.value)
         THEN [calls |-> inner.calls, res |-> "Ok"]
    ELSE LET events == from_value(parsed.value[1]) IN
         IF events # NoMatch
         THEN [calls |-> <<Call(action(events), h)>>, res |-> h]
         ELSE [calls |-> <<>>, res |-> "Ok"]

handle_msg_ClassifyEnvelope(msg, h, inner) ==
    LET parsed == from_str(msg) IN
    IF ~parsed.ok THEN [calls |-> <<>>, res |-> "Json"]
    ELSE LET events == from_value(parsed.value[1]) IN
         IF has_data(parsed.value) /\ inner.res # "Ok" THEN inner
         ELSE IF events # NoMatch
         THEN [calls |-> (IF has_data(parsed.value) THEN inner.calls ELSE <<>>)
                            \o <<Call(action(events), h)>>,
               res |-> h]
         ELSE IF has_data(parsed.value) THEN inner
         ELSE [calls |-> <<>>, res |-> "Ok"]

handle_msg_UnmatchedIsError(msg, h, inner) ==
    LET parsed == from_str(msg) IN
    IF ~parsed.ok THEN [calls |-> <<>>, res |-> "Json"]
    ELSE IF has_data(parsed.value) THEN inner
    ELSE LET events == from_value(parsed.value[1]) IN
         IF events # NoMatch
         THEN [calls |-> <<Call(action(events), h)>>, res |-> h]
         ELSE [calls |-> <<>>, res |-> "Json"]

\* One level of handle_msg; inner is the outcome of the recursive call on
\* the text of the "data" content.  The outcome is the handler invocations
\* made and the value returned ("Ok" or the error).
handle_msg_step(msg, h, inner) ==
    LET parsed == from_str(msg) IN
    IF ~parsed.ok THEN [calls |-> <<>>, res |-> "Json"]
    ELSE IF has_data(parsed.value) THEN inner
    ELSE LET events == from_value(parsed.value[1]) IN
         IF events # NoMatch
         THEN [calls |-> <<Call(action(events), h)>>, res |-> h]
         ELSE [calls |-> <<>>, res |-> "Ok"]

RECURSIVE handle_msg(_, _)
handle_msg(msg, h) ==
    handle_msg_step(msg, h,
        IF msg.json /\ has_data(msg.value)
        THEN handle_msg(to_string(get_data(msg.value)), h)
        ELSE [calls |-> <<>>, res |-> "Ok"])

\* ----------------------------------------------------------------- frames
NoSocket == 0

Frame(kind, info, msg) == [kind |-> kind, info |-> info, msg |-> msg]

\* Text messages the peer sends in the read loop: invalid JSON, an
\* unrecognized object, a day ticker, a multiplexed envelope around a
\* day-ticker array, and a trade-shaped object that carries a "data" key
\* whose content matches nothing.
LoopMsgs ==
    { InvalidJson,
      to_string(<<{}>>),
      to_string(<<{"DayTickerEvent"}>>),
      to_string(<<{}, {"Vec"}>>),
      to_string(<<{"TradeEvent"}, {}>>) }

CloseReasons == {"None", "Some(CloseFrame)"}
ReadErrors == {"Io", "Protocol"}

\* What socket.0.read_message() can return: a tungstenite Message or an
\* error.
ReadResults ==
    {Frame("Text", "", m) : m \in LoopMsgs}
      \cup {Frame(k, "", InvalidJson) : k \in {"Ping", "Pong", "Binary", "Frame"}}
      \cup {Frame("Close", e, InvalidJson) : e \in CloseReasons}
      \cup {Frame("Err", e, InvalidJson) : e \in ReadErrors}

Read(f) == [op |-> "read", kind |-> f.kind, info |-> f.info, msg |-> f.msg]
Pong == [op |-> "pong", kind |-> "Pong", info |-> "", msg |-> InvalidJson]

NoResult == <<>>
StoppedByCaller == <<"running loop closed">>

Outcome(p, r, e) == [pc |-> p, result |-> r, emit |-> e]

on_read_error_Retry(f) == Outcome("check", NoResult, <<>>)

\* let message = socket.0.read_message()?;
on_read_error(f) == Outcome("done", <<"Tungstenite", f.info>>, <<>>)

on_text_KeepGoing(f, h) ==
    Outcome("check", NoResult, handle_msg(f.msg, h).calls)

on_text_SkipBadJson(f, h) ==
    LET out == handle_msg(f.msg, h) IN
    IF out.res = "HandlerError"
    THEN Outcome("done", <<"Error on handling stream message", out.res>>,
                 out.calls)
    ELSE Outcome("check", NoResult, out.calls)

\* Message::Text(msg): handle_msg, and bail! on its error.
on_text(f, h) ==
    LET out == handle_msg(f.msg, h) IN
    IF out.res # "Ok"
    THEN Outcome("done", <<"Error on handling stream message", out.res>>,
                 out.calls)
    ELSE Outcome("check", NoResult, out.calls)

\* Message::Ping(_): write_message(Message::Pong(vec![])).unwrap(); w is
\* whether the write succeeds, and unwrap panics when it does not.
on_ping(w) ==
    IF w THEN Outcome("check", NoResult, <<Pong>>)
    ELSE Outcome("panicked", <<"panic", "unwrap">>, <<>>)

on_ignored_EchoPong == Outcome("check", NoResult, <<Pong>>)

\* Message::Pong(_) | Message::Binary(_) | Message::Frame(_) => ()
on_ignored == Outcome("check", NoResult, <<>>)

on_close_Ignored(f) == Outcome("check", NoResult, <<>>)

\* Message::Close(e) => bail!(format!("Disconnected {:?}", e))
on_close(f) == Outcome("done", <<"Disconnected", f.info>>, <<>>)

\* The body of one iteration of event_loop once read_message has returned
\* f: h is what the handler returns if it is invoked.  Gives the loop's
\* next position, the value returned (if it returns) and what was done.
dispatch(f, h, w) ==
    CASE f.kind = "Err" -> on_read_error(f)
      [] f.kind = "Text" -> on_text(f, h)
      [] f.kind = "Ping" -> on_ping(w)
      [] f.kind \in {"Pong", "Binary", "Frame"} -> on_ignored
      [] f.kind = "Close" -> on_close(f)

NumReads(t) == Cardinality({i \in 1..Len(t) : t[i].op = "read"})

\* ---------------------------------------------------------------- session
\* FuturesWebSockets::new: no socket; the caller's flag starts either way.
Init ==
    /\ socket = NoSocket
    /\ nconn = 0
    /\ closeSent = {}
    /\ ret = NoResult
    /\ running \in BOOLEAN
    /\ pc = "idle"
    /\ result = NoResult
    /\ trace = <<>>
    /\ readsSinceClear = 0
    /\ input = InvalidJson

Callable == pc \in {"idle", "done"}

ConnectResults == {"Ok", "UrlError", "Handshake"}

connect_wss_ClosePrevious ==
    /\ Callable
    /\ nconn < MaxConn
    /\ \E r \in ConnectResults :
         /\ ret' = <<"connect", r>>
         /\ IF r = "Ok"
            THEN /\ nconn' = nconn + 1
                 /\ socket' = nconn + 1
                 /\ closeSent' = closeSent \cup ({socket} \ {NoSocket})
            ELSE UNCHANGED <<nconn, socket, closeSent>>
    /\ trace' = <<>>
    /\ readsSinceClear' = 0
    /\ UNCHANGED <<running, pc, result, input>>

connect_wss_DropOnFailure ==
    /\ Callable
    /\ nconn < MaxConn
    /\ \E r \in ConnectResults :
         /\ ret' = <<"connect", r>>
         /\ IF r = "Ok"
            THEN /\ nconn' = nconn + 1
                 /\ socket' = nconn + 1
            ELSE socket' = NoSocket /\ UNCHANGED nconn
    /\ trace' = <<>>
    /\ readsSinceClear' = 0
    /\ UNCHANGED <<closeSent, running, pc, result, input>>

\* connect / connect_with_config / connect_multiple_streams(_with_config)
\* all end in connect_wss: Url::parse and connect may fail, and only on
\* success is the new connection stored.  ret is the value returned; trace,
\* the record of what the last run of event_loop did, starts afresh.
connect_wss ==
    /\ Callable
    /\ nconn < MaxConn
    /\ \E r \in ConnectResults :
         /\ ret' = <<"connect", r>>
         /\ IF r = "Ok"
            THEN /\ nconn' = nconn + 1
                 /\ socket' = nconn + 1
            ELSE UNCHANGED <<nconn, socket>>
    /\ trace' = <<>>
    /\ readsSinceClear' = 0
    /\ UNCHANGED <<closeSent, running, pc, result, input>>

disconnect_SilentWithoutHandle ==
    /\ Callable
    /\ \E ok \in BOOLEAN :
         IF socket # NoSocket /\ ok
         THEN closeSent' = closeSent \cup {socket} /\ ret' = <<"disconnect", "Ok">>
         ELSE /\ UNCHANGED closeSent
              /\ ret' = <<"disconnect", IF socket # NoSocket THEN "Tungstenite" ELSE "Ok">>
    /\ trace' = <<>>
    /\ readsSinceClear' = 0
    /\ UNCHANGED <<socket, nconn, running, pc, result, input>>

disconnect_ClearsHandle ==
    /\ Callable
    /\ \E ok \in BOOLEAN :
         IF socket # NoSocket
         THEN IF ok
              THEN /\ closeSent' = closeSent \cup {socket}
                   /\ socket' = NoSocket
                   /\ ret' = <<"disconnect", "Ok">>
              ELSE UNCHANGED <<closeSent, socket>> /\ ret' = <<"disconnect", "Tungstenite">>
         ELSE UNCHANGED <<closeSent, socket>> /\ ret' = <<"disconnect", "NotConnected">>
    /\ trace' = <<>>
    /\ readsSinceClear' = 0
    /\ UNCHANGED <<nconn, running, pc, result, input>>

\* disconnect: socket.0.close(None)? on the stored connection, Ok when the
\* close went out; bail!("Not able to close the connection") when there is
\* no connection.
disconnect ==
    /\ Callable
    /\ \E ok \in BOOLEAN :
         IF socket # NoSocket
         THEN IF ok
              THEN closeSent' = closeSent \cup {socket} /\ ret' = <<"disconnect", "Ok">>
              ELSE UNCHANGED closeSent /\ ret' = <<"disconnect", "Tungstenite">>
         ELSE UNCHANGED closeSent /\ ret' = <<"disconnect", "NotConnected">>
    /\ trace' = <<>>
    /\ readsSinceClear' = 0
    /\ UNCHANGED <<socket, nconn, running, pc, result, input>>

\* The caller (any thread) stores into the AtomicBool.  readsSinceClear
\* counts the reads the running loop has completed since the flag was last
\* cleared.
store_running ==
    /\ running' = ~running
    /\ readsSinceClear' = 0
    /\ UNCHANGED <<socket, nconn, closeSent, ret, pc, result, trace, input>>

\* event_loop is called.
event_loop ==
    /\ Callable
    /\ pc' = "check"
    /\ result' = NoResult
    /\ trace' = <<>>
    /\ readsSinceClear' = 0
    /\ ret' = NoResult
    /\ UNCHANGED <<socket, nconn, closeSent, running, input>>

loop_check_IgnoreFlag ==
    /\ pc = "check"
    /\ IF socket # NoSocket
       THEN pc' = "read" /\ UNCHANGED result
       ELSE pc' = "nosocket" /\ UNCHANGED result
    /\ UNCHANGED <<socket, nconn, closeSent, ret, running, trace, readsSinceClear, input>>

\* while running.load(Relaxed) { if let Some(socket) = self.socket { .. } }
\* and the bail! after the loop.  With the flag set and no socket the body
\* of the loop has nothing to do.
loop_check ==
    /\ pc = "check"
    /\ IF ~running
       THEN pc' = "done" /\ result' = StoppedByCaller
       ELSE IF socket # NoSocket
            THEN pc' = "read" /\ UNCHANGED result
            ELSE pc' = "nosocket" /\ UNCHANGED result
    /\ UNCHANGED <<socket, nconn, closeSent, ret, running, trace, readsSinceClear, input>>

\* The if let found None: the iteration ends and the loop goes round.
loop_skip ==
    /\ pc = "nosocket"
    /\ pc' = "check"
    /\ UNCHANGED <<socket, nconn, closeSent, ret, running, result, trace,
                   readsSinceClear, input>>

loop_read_Cancellable ==
    /\ pc = "read"
    /\ \/ /\ NumReads(trace) < MaxReads
          /\ \E f \in ReadResults, h \in HandlerResults, w \in BOOLEAN :
               LET d == dispatch(f, h, w) IN
                 /\ pc' = d.pc
                 /\ result' = d.result
                 /\ trace' = (trace \o <<Read(f)>>) \o d.emit
          /\ readsSinceClear' = IF running THEN 0 ELSE readsSinceClear + 1
       \/ /\ ~running
          /\ pc' = "done"
          /\ result' = StoppedByCaller
          /\ UNCHANGED <<trace, readsSinceClear>>
    /\ UNCHANGED <<socket, nconn, closeSent, ret, running, input>>

\* read_message returns and the message is matched.
loop_read ==
    /\ pc = "read"
    /\ NumReads(trace) < MaxReads
    /\ \E f \in ReadResults, h \in HandlerResults, w \in BOOLEAN :
         LET d == dispatch(f, h, w) IN
           /\ pc' = d.pc
           /\ result' = d.result
           /\ trace' = (trace \o <<Read(f)>>) \o d.emit
    /\ readsSinceClear' = IF running THEN 0 ELSE readsSinceClear + 1
    /\ UNCHANGED <<socket, nconn, closeSent, ret, running, input>>

Next ==
    \/ connect_wss
    \/ disconnect
    \/ store_running
    \/ event_loop
    \/ loop_check
    \/ loop_skip
    \/ loop_read

Spec == Init /\ [][Next]_vars

\* ------------------------------------------- handle_msg on its own
\* The match sets of the inputs: no shape, one shape, or two shapes.
Pairs == {{a, b} : a, b \in Shapes} \cup {{}}
Singles == {{a} : a \in Shapes} \cup {{}}

\* An object that carries a "data" key: a plain envelope, or an object
\* that by itself has the shape of one event.
EnvLayers == {{}} \cup {{a} : a \in Shapes \ ArrayShapes}

RECURSIVE Envelopes(_)
Envelopes(d) ==
    IF d = 0 THEN {<<>>}
    ELSE LET p == Envelopes(d - 1) IN
         p \cup {<<l>> \o e : l \in EnvLayers, e \in p}

Plain(e) == \A i \in 1..Len(e) : e[i] = {}

TestMsgs ==
    {InvalidJson}
      \cup {to_string(e \o <<b>>) :
              e \in {x \in Envelopes(MaxDepth) : Plain(x)}, b \in Pairs}
      \cup {to_string(e \o <<b>>) :
              e \in {x \in Envelopes(MaxDepth) : ~Plain(x)}, b \in Singles}

InitMsg ==
    /\ socket = NoSocket
    /\ nconn = 0
    /\ closeSent = {}
    /\ ret = NoResult
    /\ running = TRUE
    /\ pc = "idle"
    /\ result = NoResult
    /\ trace = <<>>
    /\ readsSinceClear = 0
    /\ input \in TestMsgs

\* test_handle_msg(msg): handle_msg on a text chosen by the caller.
test_handle_msg ==
    /\ pc = "idle"
    /\ \E h \in HandlerResults :
         LET out == handle_msg(input, h) IN
           /\ trace' = out.calls
           /\ result' = <<out.res>>
    /\ pc' = "tested"
    /\ UNCHANGED <<socket, nconn, closeSent, ret, running, readsSinceClear, input>>

NextMsg == test_handle_msg

SpecMsg == InitMsg /\ [][NextMsg]_vars

\* ------------------------------------------------------ endpoint resolver
MaxStreams == 2

\* Config::default() and Config::testnet(): the three futures streaming
\* endpoints.
ConfigDefault ==
    [ futures_ws_endpoint |-> "wss://fstream.binance.com",
      futures_ws_endpoint_coin_m |-> "wss://dstream.binance.com",
      futures_ws_endpoint_vanilla |-> "wss://vstream.binance.com" ]

ConfigTestnet ==
    [ futures_ws_endpoint |-> "wss://stream.binancefuture.com",
      futures_ws_endpoint_coin_m |-> "wss://dstream.binancefuture.com",
      futures_ws_endpoint_vanilla |-> "wss://vstream.binancefuture.com" ]

Configs == {ConfigDefault, ConfigTestnet}

FuturesMarket == {"USDM", "COINM", "Vanilla"}

StreamNames == {"btcusdt@trade", "a", "b"}
CustomUrls == {"wss://example.org", "ws://localhost:9000/x"}

RECURSIVE SeqsUpTo(_, _)
SeqsUpTo(S, n) ==
    IF n = 0 THEN {<<>>}
    ELSE LET p == SeqsUpTo(S, n - 1) IN p \cup {<<x>> \o q : x \in S, q \in p}

Endpoints == SeqsUpTo(StreamNames, MaxStreams)

\* endpoints.join("/")
RECURSIVE join(_)
join(endpoints) ==
    IF endpoints = <<>> THEN ""
    ELSE IF Len(endpoints) = 1 THEN endpoints[1]
    ELSE (endpoints[1] \o "/") \o join(Tail(endpoints))

Api(mode, url) == [mode |-> mode, url |-> url]

params_SwappedMarkets(api, market, subscription, config) ==
    LET baseurl ==
          CASE market = "USDM" -> config.futures_ws_endpoint
            [] market = "COINM" -> config.futures_ws_endpoint_vanilla
            [] market = "Vanilla" -> config.futures_ws_endpoint_coin_m
    IN  CASE api.mode = "Default" -> (baseurl \o "/ws/") \o subscription
          [] api.mode = "MultiStream" ->
               (baseurl \o "/stream?streams=") \o subscription
          [] api.mode = "Custom" -> (api.url \o "/") \o subscription

\* FuturesWebsocketAPI::params
params(api, market, subscription, config) ==
    LET baseurl ==
          CASE market = "USDM" -> config.futures_ws_endpoint
            [] market = "COINM" -> config.futures_ws_endpoint_coin_m
            [] market = "Vanilla" -> config.futures_ws_endpoint_vanilla
    IN  CASE api.mode = "Default" -> (baseurl \o "/ws/") \o subscription
          [] api.mode = "MultiStream" ->
               (baseurl \o "/stream?streams=") \o subscription
          [] api.mode = "Custom" -> (api.url \o "/") \o subscription

\* The arguments of a call and the URL resolved for it; the connection
\* itself is connect_wss above.
Resolved(method, api, market, endpoints, subscription, config, wss) ==
    /\ pc = "idle"
    /\ pc' = "resolved"
    /\ input' = [ method |-> method, api |-> api, market |-> market,
                  endpoints |-> endpoints, subscription |-> subscription,
                  config |-> config ]
    /\ result' = <<wss>>
    /\ UNCHANGED <<socket, nconn, closeSent, ret, running, trace, readsSinceClear>>

connect ==
    \E market \in FuturesMarket, subscription \in StreamNames :
        Resolved("connect", Api("Default", ""), market, <<>>, subscription,
                 ConfigDefault,
                 params(Api("Default", ""), market, subscription, ConfigDefault))

connect_with_config ==
    \E market \in FuturesMarket, subscription \in StreamNames, config \in Configs :
        Resolved("connect_with_config", Api("Default", ""), market, <<>>,
                 subscription, config,
                 params(Api("Default", ""), market, subscription, config))

connect_multiple_streams ==
    \E market \in FuturesMarket, endpoints \in Endpoints :
        Resolved("connect_multiple_streams", Api("MultiStream", ""), market,
                 endpoints, join(endpoints), ConfigDefault,
                 params(Api("MultiStream", ""), market, join(endpoints),
                        ConfigDefault))

connect_multiple_streams_with_config ==
    \E market \in FuturesMarket, endpoints \in Endpoints, config \in Configs :
        Resolved("connect_multiple_streams_with_config",
                 Api("MultiStream", ""), market, endpoints, join(endpoints),
                 config,
                 params(Api("MultiStream", ""), market, join(endpoints), config))

\* params on FuturesWebsocketAPI::Custom(url), which no connect method
\* builds.
params_custom ==
    \E url \in CustomUrls, market \in FuturesMarket,
       subscription \in StreamNames, config \in Configs :
        Resolved("params", Api("Custom", url), market, <<>>, subscription,
                 config, params(Api("Custom", url), market, subscription, config))

InitUrl ==
    /\ socket = NoSocket
    /\ nconn = 0
    /\ closeSent = {}
    /\ ret = NoResult
    /\ running = TRUE
    /\ pc = "idle"
    /\ result = NoResult
    /\ trace = <<>>
    /\ readsSinceClear = 0
    /\ input = InvalidJson

NextUrl ==
    \/ connect
    \/ connect_with_config
    \/ connect_multiple_streams
    \/ connect_multiple_streams_with_config
    \/ params_custom

SpecUrl == InitUrl /\ [][NextUrl]_vars

\* ================================================================ claims
IsRead(e, kind) == e.op = "read" /\ e.kind = kind
CallsOf(t) == SelectSeq(t, LAMBDA e : e.op = "call")
Innermost(msg) == msg.value[Len(msg.value)]
\* The loop is still going, or it ended only because the caller stopped it.
LoopGoesOn == pc \in {"check", "read"} \/ (pc = "done" /\ result = StoppedByCaller)
FirstIn(order, set) ==
    order[CHOOSE i \in 1..Len(order) :
            /\ order[i] \in set
            /\ \A j \in 1..Len(order) : order[j] \in set => i <= j]

\* C1: a handler error on the k-th event ends the loop at once: the failing
\* invocation is the last thing the loop did (so the handler ran exactly k
\* times and nothing was read afterwards) and event_loop returned the
\* wrapped error naming the handler's failure.
C1_HandlerErrorStops ==
    \A i \in 1..Len(trace) :
        (trace[i].op = "call" /\ trace[i].info = "HandlerError") =>
            /\ i = Len(trace)
            /\ pc = "done"
            /\ result = <<"Error on handling stream message", "HandlerError">>
            /\ Len(CallsOf(trace)) = Len(CallsOf(SubSeq(trace, 1, i)))

C1_Witness ==
    /\ pc = "done"
    /\ Len(CallsOf(trace)) = 3
    /\ trace[Len(trace)].op = "call"
    /\ trace[Len(trace)].info = "HandlerError"

\* C2: a valid-JSON text frame that matches no shape invokes no handler and
\* raises no error: the next thing the loop does is read again, and a loop
\* whose last frame was such a frame has not ended because of it.
Unrecognized(e) ==
    /\ IsRead(e, "Text")
    /\ e.msg.json
    /\ \A k \in 1..Len(e.msg.value) : e.msg.value[k] = {}

C2_UnrecognizedSkipped ==
    \A i \in 1..Len(trace) :
        Unrecognized(trace[i]) =>
            IF i = Len(trace) THEN LoopGoesOn ELSE trace[i + 1].op = "read"

C2_Witness ==
    /\ Len(trace) = 3
    /\ \A i \in 1..3 : Unrecognized(trace[i])
    /\ pc = "read"

\* C3: a close frame ends the loop with the peer-close error naming the
\* close reason; it is the last thing in the run (no handler invocation for
\* it, no further read) and the result is never a success.
C3_CloseIsError ==
    \A i \in 1..Len(trace) :
        IsRead(trace[i], "Close") =>
            /\ i = Len(trace)
            /\ pc = "done"
            /\ result = <<"Disconnected", trace[i].info>>

C3_Witness ==
    /\ Len(trace) >= 3
    /\ IsRead(trace[Len(trace)], "Close")
    /\ result = <<"Disconnected", "Some(CloseFrame)">>

\* C4: every read is preceded by a check of the flag that found it set; a
\* check that finds the flag clear ends the loop with the "stopped by
\* caller" error without reading or invoking anything, and nothing is read
\* or invoked after the loop has ended.
C4_FlagCheckedBeforeRead ==
    [][ /\ (pc = "check" /\ ~running /\ pc' # pc) =>
              (pc' = "done" /\ result' = StoppedByCaller /\ trace' = trace)
        /\ (pc' = "read" /\ pc # "read") => (pc = "check" /\ running)
        /\ (trace' # trace /\ trace' # <<>>) => pc = "read"
        /\ (pc' = "read") => trace' = trace
      ]_vars

C4_Witness ==
    /\ pc = "done"
    /\ result = StoppedByCaller
    /\ NumReads(trace) = 2
    /\ ~running

\* C5: the handler is invoked exactly once, right after the read, for each
\* text frame whose innermost payload matches a shape, with a variant of
\* that payload, and before the next frame is read; it is invoked for no
\* other frame.
Classifies(e) ==
    IsRead(e, "Text") /\ e.msg.json /\ Innermost(e.msg) # {}

C5_OncePerEventInOrder ==
    \A i \in 1..Len(trace) :
        /\ (trace[i].op = "read" /\ Classifies(trace[i])) =>
              /\ i < Len(trace)
              /\ trace[i + 1].op = "call"
              /\ trace[i + 1].kind \in {action(x) : x \in Innermost(trace[i].msg)}
              /\ i + 2 <= Len(trace) => trace[i + 2].op = "read"
        /\ trace[i].op = "call" =>
              /\ i > 1
              /\ trace[i - 1].op = "read"
              /\ Classifies(trace[i - 1])

C5_Witness ==
    /\ Len(trace) = 5
    /\ trace[2].op = "call" /\ trace[2].kind = "DayTickerAll"
    /\ IsRead(trace[3], "Text") /\ ~Classifies(trace[3])
    /\ trace[5].op = "call" /\ trace[5].kind = "DayTicker"

\* The precedence list as the specification states it, in the names of
\* the variants handed to the handler.
ClaimedOrder ==
    << "DayTickerAll", "DayTicker", "BookTicker", "MiniTicker",
       "MiniTickerAll", "AccountUpdate", "OrderTrade", "AggrTrades",
       "IndexPrice", "MarkPrice", "MarkPriceAll", "Trade",
       "ContinuousKline", "IndexKline", "Liquidation", "Kline",
       "OrderBook", "DepthOrderBook", "UserDataStreamExpiredEvent" >>

\* The same list with the kline in 13th place, before the
\* continuous-contract kline, the index kline and the liquidation.
AmendedOrder ==
    << "DayTickerAll", "DayTicker", "BookTicker", "MiniTicker",
       "MiniTickerAll", "AccountUpdate", "OrderTrade", "AggrTrades",
       "IndexPrice", "MarkPrice", "MarkPriceAll", "Trade",
       "Kline", "ContinuousKline", "IndexKline", "Liquidation",
       "OrderBook", "DepthOrderBook", "UserDataStreamExpiredEvent" >>

Tested == pc = "tested" /\ input.json

DeliveredFirstOf(order) ==
    Tested =>
        IF Innermost(input) = {} THEN trace = <<>>
        ELSE /\ Len(trace) = 1
             /\ trace[1].op = "call"
             /\ trace[1].kind =
                  FirstIn(order, {action(x) : x \in Innermost(input)})

\* C6 as stated: the variant handed to the handler is the earliest, in the
\* stated list (kline in 16th place), of the shapes the input matches.
C6_ClaimedPrecedence == DeliveredFirstOf(ClaimedOrder)

\* C6 amended: the variant handed to the handler is the earliest of the
\* shapes the input matches in the list with kline 13th, continuous kline
\* 14th, index kline 15th and liquidation 16th; an input that matches no
\* shape is handed to nobody.
C6_DeclaredPrecedence == DeliveredFirstOf(AmendedOrder)

C6_Witness ==
    /\ Tested
    /\ input.value = <<{"KlineEvent", "ContinuousKlineEvent"}>>
    /\ Len(trace) = 1
    /\ trace[1].kind = "Kline"

\* C7: handling an envelope gives what handling its "data" content gives,
\* at every depth: the same handler invocations and the same returned
\* value; the envelope object itself is not classified, a bare input is
\* classified as it is, and an envelope around a day-ticker array yields
\* DayTickerAll.
SameAsHandling(msg) ==
    \A h \in HandlerResults :
        (trace = <<>> \/ trace[1].info = h) =>
            /\ trace = handle_msg(msg, h).calls
            /\ result = <<handle_msg(msg, h).res>>

C7_EnvelopeTransparent ==
    Tested =>
        /\ \A k \in 2..Len(input.value) :
              SameAsHandling(to_string(SubSeq(input.value, k, Len(input.value))))
        /\ Len(trace) <= 1
        /\ (Len(input.value) = 1 /\ input.value[1] # {}) =>
              (Len(trace) = 1 /\ trace[1].kind \in {action(x) : x \in input.value[1]})
        /\ input.value = <<{}, {"Vec"}>> =>
              (Len(trace) = 1 /\ trace[1].kind = "DayTickerAll")

C7_Witness ==
    /\ Tested
    /\ Len(input.value) = 3
    /\ input.value[1] = {"DayTickerEvent"}
    /\ input.value[3] = {"Vec"}
    /\ Len(trace) = 1
    /\ trace[1].kind = "DayTickerAll"
    /\ result = <<"HandlerError">>

\* C8: every ping read is answered by exactly one pong before the next
\* read, without a handler invocation, and the loop goes on.
C8_PingAnswered ==
    \A i \in 1..Len(trace) :
        IsRead(trace[i], "Ping") =>
            /\ i < Len(trace)
            /\ trace[i + 1].op = "pong"
            /\ IF i + 1 = Len(trace) THEN LoopGoesOn
               ELSE trace[i + 2].op = "read"

\* C9: a ping whose pong could not be written does not crash the loop: the
\* loop stays running and goes to the next flag check and read.
C9_PongBestEffort ==
    (/\ trace # <<>>
     /\ IsRead(trace[Len(trace)], "Ping")) => LoopGoesOn

\* C10: an error returned by the read ends the loop at once with that
\* error: nothing is done in that iteration (no handler invocation, no
\* pong) and nothing is read afterwards.
C10_ReadErrorFatal ==
    \A i \in 1..Len(trace) :
        IsRead(trace[i], "Err") =>
            /\ i = Len(trace)
            /\ pc = "done"
            /\ result = <<"Tungstenite", trace[i].info>>

C10_Witness ==
    /\ pc = "done"
    /\ NumReads(trace) = 3
    /\ IsRead(trace[Len(trace)], "Err")
    /\ result = <<"Tungstenite", "Protocol">>

\* C11: a text frame that is not valid JSON is a decode error: the handler
\* is not invoked for it, nothing is read after it, and event_loop has
\* returned the wrapped parse error.
C11_BadJsonFatal ==
    \A i \in 1..Len(trace) :
        (IsRead(trace[i], "Text") /\ ~trace[i].msg.json) =>
            /\ i = Len(trace)
            /\ pc = "done"
            /\ result = <<"Error on handling stream message", "Json">>

C11_Witness ==
    /\ pc = "done"
    /\ NumReads(trace) = 2
    /\ Unrecognized(trace[1])
    /\ IsRead(trace[Len(trace)], "Text")
    /\ ~trace[Len(trace)].msg.json

\* A step in which disconnect (connect) returned.
Returned(op) == ret' # NoResult /\ ret'[1] = op /\ (ret' # ret \/ closeSent' # closeSent \/ socket' # socket)

\* C12: disconnect on a session with a connection sends a close frame on
\* that connection and returns success when the send succeeds; on a session
\* without one it sends nothing, changes nothing and returns the
\* not-connected error, never success.  Nothing else sends a close frame.
C12_Disconnect ==
    [][ /\ Returned("disconnect") =>
              /\ socket' = socket /\ nconn' = nconn
              /\ IF socket = NoSocket
                 THEN ret' = <<"disconnect", "NotConnected">> /\ closeSent' = closeSent
                 ELSE \/ ret' = <<"disconnect", "Ok">> /\ closeSent' = closeSent \cup {socket}
                      \/ ret' = <<"disconnect", "Tungstenite">> /\ closeSent' = closeSent
        /\ closeSent' # closeSent => ret' = <<"disconnect", "Ok">>
      ]_vars

C12_Witness ==
    /\ ret = <<"disconnect", "Ok">>
    /\ socket # NoSocket
    /\ socket \in closeSent
    /\ pc = "done"

\* C13: a running loop that finds the session without a connection has
\* ended with the not-connected error.
C13_NoHandleIsError ==
    pc = "nosocket" => result = <<"NotConnected">>

\* C14: the resolved URL is a function of mode, segment, descriptor and
\* config: the config's endpoint of the segment followed by "/ws/" and the
\* descriptor in Default mode, by "/stream?streams=" and the stream names
\* joined by "/" in MultiStream mode; the override followed by "/" and the
\* descriptor in Custom mode, whatever the config.  Default, USDM and
\* "btcusdt@trade" with the production config give
\* "wss://fstream.binance.com/ws/btcusdt@trade".
RECURSIVE SlashJoined(_, _)
SlashJoined(names, n) ==
    IF n = 0 THEN ""
    ELSE IF n = 1 THEN names[1]
    ELSE (SlashJoined(names, n - 1) \o "/") \o names[n]

BaseOf(c, market) ==
    IF market = "USDM" THEN c.futures_ws_endpoint
    ELSE IF market = "COINM" THEN c.futures_ws_endpoint_coin_m
    ELSE c.futures_ws_endpoint_vanilla

C14_Resolver ==
    pc = "resolved" =>
        LET i == input
            url == result[1]
            desc == IF i.api.mode = "MultiStream"
                    THEN SlashJoined(i.endpoints, Len(i.endpoints))
                    ELSE i.subscription
        IN  /\ i.method \in {"connect", "connect_multiple_streams"} =>
                  i.config = ConfigDefault
            /\ i.api.mode = "Default" =>
                  url = (BaseOf(i.config, i.market) \o "/ws/") \o desc
            /\ i.api.mode = "MultiStream" =>
                  url = (BaseOf(i.config, i.market) \o "/stream?streams=") \o desc
            /\ i.api.mode = "Custom" => url = (i.api.url \o "/") \o desc
            /\ (i.method = "connect" /\ i.market = "USDM"
                  /\ i.subscription = "btcusdt@trade") =>
                  url = "wss://fstream.binance.com/ws/btcusdt@trade"
            /\ (i.method = "connect_multiple_streams" /\ i.market = "COINM"
                  /\ i.endpoints = <<"a", "b">>) =>
                  url = "wss://dstream.binance.com/stream?streams=a/b"
            /\ (i.api.mode = "MultiStream" /\ i.endpoints = <<>> /\ i.market = "Vanilla"
                  /\ i.config = ConfigTestnet) =>
                  url = "wss://vstream.binancefuture.com/stream?streams="

C14_Witness ==
    /\ pc = "resolved"
    /\ input.method = "connect_multiple_streams"
    /\ input.market = "COINM"
    /\ input.endpoints = <<"a", "b">>
    /\ result = <<"wss://dstream.binance.com/stream?streams=a/b">>

\* C15: cancellation does not preempt a read: the loop leaves the blocked
\* read only because the read returned, a store into the flag while the
\* loop is blocked changes neither its position nor its result, and the
\* "stopped by caller" result arises only at the flag check at the top of
\* an iteration.
C15_NotPreemptive ==
    [][ /\ (pc = "read" /\ pc' # "read") =>
              NumReads(trace') = NumReads(trace) + 1
        /\ (pc = "read" /\ running' # running) =>
              (pc' = "read" /\ result' = result /\ trace' = trace)
        /\ (result' = StoppedByCaller /\ result # StoppedByCaller) =>
              (pc = "check" /\ ~running /\ pc' = "done")
      ]_vars

C15_Witness ==
    /\ pc = "read"
    /\ ~running
    /\ NumReads(trace) = 1
    /\ result = NoResult

\* C16: the session holds one connection at most; a successful connect on
\* a connected session stores the new connection in place of the old one
\* and sends no close frame on any connection.
C16_ReplaceWithoutClose ==
    /\ [](socket \in 0..nconn /\ closeSent \subseteq 1..nconn)
    /\ [][ socket' # socket =>
              /\ ret' = <<"connect", "Ok">>
              /\ socket' \notin {NoSocket, socket}
              /\ nconn' = nconn + 1
              /\ closeSent' = closeSent
         ]_vars

C16_Witness ==
    /\ socket = 2
    /\ closeSent = {}
    /\ ret = <<"connect", "Ok">>

\* C17: a pong, binary or raw frame is ignored: no handler invocation and
\* no write follow its read, the session's connection state is unchanged
\* and the loop goes to the next flag check.
Ignored(e) == e.op = "read" /\ e.kind \in {"Pong", "Binary", "Frame"}

C17_IgnoredFrames ==
    /\ [](\A i \in 1..Len(trace) :
            Ignored(trace[i]) =>
                IF i = Len(trace) THEN LoopGoesOn ELSE trace[i + 1].op = "read")
    /\ [][ (trace' # trace /\ trace' # <<>> /\ Ignored(trace'[Len(trace')])) =>
              /\ trace' = Append(trace, trace'[Len(trace')])
              /\ pc' = "check"
              /\ <<socket, nconn, closeSent, ret, running, result>>' =
                   <<socket, nconn, closeSent, ret, running, result>>
         ]_vars

C17_Witness ==
    /\ Len(trace) = 3
    /\ IsRead(trace[1], "Pong")
    /\ IsRead(trace[2], "Binary")
    /\ IsRead(trace[3], "Frame")
    /\ pc = "read"

\* C18: after the flag has been cleared, and while it stays clear, the
\* loop completes one more read at most, and with it one handler
\* invocation or one pong at most, and is not reading again.
C18_AtMostOneReadAfterClear ==
    /\ readsSinceClear <= 1
    /\ readsSinceClear = 1 =>
          /\ pc # "read"
          /\ \E i \in 1..Len(trace) :
                /\ trace[i].op = "read"
                /\ Len(trace) <= i + 1

C18_Witness ==
    /\ readsSinceClear = 1
    /\ pc = "done"
    /\ result = StoppedByCaller
    /\ NumReads(trace) = 2
    /\ trace[Len(trace)].op = "call"

\* C19: no step takes the stored connection away: a session that has a
\* connection has one in every later state, whatever disconnect or the
\* loop did, and a disconnect on it never returns the not-connected error.
C19_HandleNeverCleared ==
    [][ /\ socket # NoSocket => socket' # NoSocket
        /\ (Returned("disconnect") /\ nconn > 0) =>
              ret' # <<"disconnect", "NotConnected">>
      ]_vars

C19_Witness ==
    /\ pc = "done"
    /\ result = <<"Disconnected", "None">>
    /\ ret = <<"disconnect", "Ok">>
    /\ socket # NoSocket
    /\ socket \in closeSent

\* C20: a connect that fails, on the URL or on the handshake, returns an
\* error and leaves the stored connection as it was, absent or present,
\* with no close frame sent on it.
C20_FailedConnectKeepsHandle ==
    [][ (ret' # ret /\ ret' # NoResult /\ ret'[1] = "connect" /\ ret'[2] # "Ok") =>
            /\ ret'[2] \in {"UrlError", "Handshake"}
            /\ socket' = socket
            /\ nconn' = nconn
            /\ closeSent' = closeSent
      ]_vars

C20_Witness ==
    /\ ret = <<"connect", "Handshake">>
    /\ socket = 1
    /\ closeSent = {}

====
